---- MODULE Spec2Model ----
(***************************************************************************)
(* Model of statyc/call_tree.py: the source model (Module), the call       *)
(* classifier (Call.__init__), the call tree builder (get_call_tree) and   *)
(* the tree renderer (print_call_tree), with Python's exception semantics. *)
(*                                                                         *)
(* A compilation unit is a sequence of function definitions; the body of a *)
(* function definition is the sequence of its ast.Call nodes in ast.walk   *)
(* order (every other node kind is skipped by line 107).  A call node is a *)
(* record [kind, name, value]:                                             *)
(*    f(...)      [kind |-> "Name",      name |-> "f", value |-> NoValue]  *)
(*    x.f(...)    [kind |-> "Attribute", name |-> "f", value |-> "x"]      *)
(*    <e>.f(...)  [kind |-> "Attribute", name |-> "f", value |-> NonName]  *)
(*    x[i](...)   [kind |-> "Subscript", name |-> NoName, value |-> NoValue]*)
(***************************************************************************)
EXTENDS Integers, Sequences, FiniteSets, TLC

\* ------------------------------------------------------------------ bounds
MaxDefs == 2      \* function definitions per compilation unit
MaxCalls == 2     \* call nodes per compilation unit (over all bodies)

\* ------------------------------------------------------- names and values
NoValue == "<no value>"
NoName == "<no name>"
NonName == "<not a Name node>"
NoParent == "<unbound>"

ModuleName == "m"                    \* inspect.getmodulename(filename)
FnNames == {"a", "len"}              \* names a unit may define
OwnerNames == {"helper", "other"}    \* simple names used as attribute owners

\* builtins.__dict__ restricted to the names the model uses
BUILTIN_NAMES == {"len", "print"}

NameCall(id) == [kind |-> "Name", name |-> id, value |-> NoValue]
AttributeCall(value, attr) == [kind |-> "Attribute", name |-> attr, value |-> value]
SubscriptCall == [kind |-> "Subscript", name |-> NoName, value |-> NoValue]

CallNodes ==
    {NameCall(id) : id \in FnNames}
    \cup {AttributeCall("helper", "run"), AttributeCall("helper", "len"),
          AttributeCall("other", "run"), AttributeCall(NonName, "run")}
    \cup {SubscriptCall}

\* ------------------------------------------------------- compilation units
\* The k calls of a unit of n function definitions, flat: each tagged with
\* the index of the function definition whose body holds it, in source order.
FlatCalls(n, k) ==
    {c \in [1..k -> (1..n) \X CallNodes] :
        \A i \in 1..(k - 1) : c[i][1] <= c[i + 1][1]}

RECURSIVE BodyOf(_, _, _)
BodyOf(calls, d, i) ==
    IF i > Len(calls) THEN << >>
    ELSE IF calls[i][1] = d THEN <<calls[i][2]>> \o BodyOf(calls, d, i + 1)
    ELSE BodyOf(calls, d, i + 1)

\* class Module: name and function_defs (imports play no part in the tree)
Module(names, calls) ==
    [name |-> ModuleName,
     function_defs |-> [d \in DOMAIN names |->
                          [name |-> names[d], body |-> BodyOf(calls, d, 1)]]]

NoneDef == [name |-> "<None>", body |-> << >>]

\* Module.get_function_def_by_name: first match, else None
get_function_def_by_name(module, name) ==
    LET hits == {d \in DOMAIN module.function_defs : module.function_defs[d].name = name}
    IN IF hits = {} THEN NoneDef
       ELSE module.function_defs[CHOOSE d \in hits : \A e \in hits : d <= e]

\* ------------------------------------------------------------ stdout lines
Line(kind, name) == [kind |-> kind, name |-> name]
DiagNotAFunctionDef(name) == Line("not a function definition", name)     \* line 57
DiagValueNotImplemented == Line("not implemented, self.func.value", NoName)  \* line 64
DiagFuncNotImplemented == Line("not implemented, self.func", NoName)     \* line 66
DiagNotImplemented == Line("not implemented", NoName)                    \* line 135
DumpLine == Line("astdump", NoName)                                      \* line 73
TreeLine(name) == Line("tree", name)                                     \* line 89

\* ---------------------------------------------------------- Call.__init__
\* Returns the exception raised (or "None"), what was printed, and the
\* name/parent attributes that were set.
Call(call, containing_module) ==
    IF call.kind = "Name" THEN
        IF get_function_def_by_name(containing_module, call.name) # NoneDef
        THEN [exc |-> "None", lineno |-> 0, out |-> << >>,
              name |-> call.name, parent |-> containing_module.name]
        ELSE \* line 57 prints, then line 69 reads the unassigned local `parent`
             [exc |-> "UnboundLocalError", lineno |-> 69,
              out |-> <<DiagNotAFunctionDef(call.name)>>,
              name |-> call.name, parent |-> NoParent]
    ELSE IF call.kind = "Attribute" THEN
        IF call.value # NonName
        THEN [exc |-> "None", lineno |-> 0, out |-> << >>,
              name |-> call.name, parent |-> call.value]
        ELSE \* line 64 prints, then line 69 reads the unassigned local `parent`
             [exc |-> "UnboundLocalError", lineno |-> 69,
              out |-> <<DiagValueNotImplemented>>,
              name |-> call.name, parent |-> NoParent]
    ELSE \* lines 65-67: print and return, no attribute set
        [exc |-> "None", lineno |-> 0, out |-> <<DiagFuncNotImplemented>>,
         name |-> NoName, parent |-> NoParent]

\* ------------------------------------------------- OrderedDict operations
\* An OrderedDict is a sequence of [key, callees] in insertion order.
HasKey(d, key) == \E i \in DOMAIN d : d[i].key = key

Get(d, key) == d[CHOOSE i \in DOMAIN d : d[i].key = key].callees

setdefault(d, key) ==
    IF HasKey(d, key) THEN d ELSE Append(d, [key |-> key, callees |-> << >>])

InList(x, list) == \E i \in DOMAIN list : list[i] = x

AppendTo(d, key, x) ==
    [i \in DOMAIN d |->
        IF d[i].key = key THEN [d[i] EXCEPT !.callees = Append(@, x)] ELSE d[i]]

\* ----------------------------------------------------------- get_call_tree
\* State of the loop of lines 106-136: the mapping under construction, what
\* has been printed, the exception in flight and the number of call nodes
\* the loop has taken up.
LoopInit ==
    [callees_per_module |-> << >>, out |-> << >>, exc |-> "None", lineno |-> 0,
     visited |-> 0]

Raise(st, exc, lineno) == [st EXCEPT !.exc = exc, !.lineno = lineno]

\* lines 111-118.  `module_name` is bound nowhere in the module (line 148 is
\* commented out), so evaluating the arguments of setdefault at line 115
\* raises NameError; lines 116-118 are never reached.
VisitName(function_call, st) ==
    IF function_call.name \in BUILTIN_NAMES THEN st
    ELSE Raise(st, "NameError", 115)

\* lines 119-133 without the built-in filter of lines 129-130
VisitAttributeNoFilter(function_call, st) ==
    LET callee_module_name == function_call.value
        callee_function_name == function_call.name
        d == setdefault(st.callees_per_module, callee_module_name)
    IN IF ~InList(callee_function_name, Get(d, callee_module_name))
       THEN [st EXCEPT !.callees_per_module =
                          AppendTo(d, callee_module_name, callee_function_name)]
       ELSE [st EXCEPT !.callees_per_module = d]

\* lines 119-133.  Call.__init__ has already raised for every attribute call
\* whose value is not a Name, so here the value is a Name: the loop of lines
\* 120-121 does not iterate and the try of lines 122-124 does not fail.
VisitAttribute(function_call, st) ==
    LET callee_module_name == function_call.value
        callee_function_name == function_call.name
        d == setdefault(st.callees_per_module, callee_module_name)
    IN IF callee_function_name \in BUILTIN_NAMES THEN st
       ELSE IF ~InList(callee_function_name, Get(d, callee_module_name))
       THEN [st EXCEPT !.callees_per_module =
                          AppendTo(d, callee_module_name, callee_function_name)]
       ELSE [st EXCEPT !.callees_per_module = d]

\* a fail-fast variant of lines 134-136: raise instead of printing
VisitOtherFailFast(function_call, st) ==
    Raise([st EXCEPT !.out = @ \o <<DumpLine>>], "AssertionError", 135)

\* lines 134-136: print 'not implemented', dump the node, go on
VisitOther(function_call, st) ==
    [st EXCEPT !.out = @ \o <<DiagNotImplemented, DumpLine>>]

\* one iteration of the loop for a call node: lines 109-136
VisitCall(function_call, containing_module, st) ==
    LET call == Call(function_call, containing_module)
        st1 == [st EXCEPT !.out = @ \o call.out, !.visited = @ + 1]
    IN IF call.exc # "None" THEN Raise(st1, call.exc, call.lineno)
       ELSE IF function_call.kind = "Name" THEN VisitName(function_call, st1)
       ELSE IF function_call.kind = "Attribute" THEN VisitAttribute(function_call, st1)
       ELSE VisitOther(function_call, st1)

RECURSIVE Walk(_, _, _, _)
Walk(body, containing_module, i, st) ==
    IF i > Len(body) \/ st.exc # "None" THEN st
    ELSE Walk(body, containing_module, i + 1,
              VisitCall(body[i], containing_module, st))

IsCallNode(node) == "kind" \in DOMAIN node

\* get_call_tree(fn_def_or_call, containing_module)
get_call_tree(fn_def_or_call, containing_module) ==
    IF IsCallNode(fn_def_or_call) THEN
        IF fn_def_or_call.kind = "Subscript"
        THEN \* line 98: the assert fails, its message expression dumps the node
             Raise([LoopInit EXCEPT !.out = <<DumpLine>>], "AssertionError", 98)
        ELSE \* line 99: the global get_function_def_by_name is bound nowhere
             Raise(LoopInit, "NameError", 99)
    ELSE Walk(fn_def_or_call.body, containing_module, 1, LoopInit)

\* --------------------------------------------------------- print_call_tree
\* print_call_tree(call_tree, indent_level) with the process-wide
\* print_call_tree_cache passed in.  Line 80 reads the global `module_name`,
\* bound nowhere in the module: NameError is raised before the cache is
\* cleared (line 83) and before any callee is looked at (lines 84-92).
print_call_tree(call_tree, indent_level, cache) ==
    [exc |-> "NameError", lineno |-> 80, out |-> << >>, cache |-> cache,
     cleared |-> FALSE]

\* -------------------------------------------------------------- the process
\* module: the compilation unit under analysis (main, line 147)
\* print_call_tree_cache: the process-wide visited-set (line 76)
\* call_tree: the latest mapping get_call_tree returned, and its seed
\* last: the latest finished invocation and its outcome
VARIABLES module, print_call_tree_cache, call_tree, last

vars == <<module, print_call_tree_cache, call_tree, last>>

NoCall == [kind |-> "<none>", name |-> NoName, value |-> NoValue]

NoInvocation ==
    [op |-> "none", fn_def |-> NoneDef, call |-> NoCall, exc |-> "None",
     lineno |-> 0, tree |-> << >>, out |-> << >>, visited |-> 0,
     cleared |-> FALSE]

Init ==
    /\ \E n \in 1..MaxDefs : \E k \in 0..MaxCalls :
          \E names \in [1..n -> FnNames] : \E calls \in FlatCalls(n, k) :
              module = Module(names, calls)
    /\ print_call_tree_cache = {}
    /\ call_tree = [bound |-> FALSE, tree |-> << >>, fn_def |-> NoneDef]
    /\ last = NoInvocation

\* main, lines 157-161: look the seed up by name and build its tree
BuildFunctionDef ==
    \E name \in FnNames :
        LET fn_def == get_function_def_by_name(module, name)
            r == get_call_tree(fn_def, module)
        IN /\ fn_def # NoneDef
           /\ last' = [NoInvocation EXCEPT
                          !.op = "get_call_tree", !.fn_def = fn_def,
                          !.exc = r.exc, !.lineno = r.lineno,
                          !.tree = IF r.exc = "None" THEN r.callees_per_module ELSE << >>,
                          !.out = r.out, !.visited = r.visited]
           /\ call_tree' = IF r.exc = "None"
                           THEN [bound |-> TRUE, tree |-> r.callees_per_module,
                                 fn_def |-> fn_def]
                           ELSE call_tree
           /\ UNCHANGED <<module, print_call_tree_cache>>

\* get_call_tree given a call expression of the unit
BuildCall ==
    \E d \in DOMAIN module.function_defs :
      \E j \in DOMAIN module.function_defs[d].body :
        LET call == module.function_defs[d].body[j]
            r == get_call_tree(call, module)
        IN /\ last' = [NoInvocation EXCEPT
                          !.op = "get_call_tree", !.call = call,
                          !.exc = r.exc, !.lineno = r.lineno,
                          !.tree = IF r.exc = "None" THEN r.callees_per_module ELSE << >>,
                          !.out = r.out, !.visited = r.visited]
           /\ call_tree' = IF r.exc = "None"
                           THEN [bound |-> TRUE, tree |-> r.callees_per_module,
                                 fn_def |-> NoneDef]
                           ELSE call_tree
           /\ UNCHANGED <<module, print_call_tree_cache>>

\* main, line 163: render the tree at depth 0
Render ==
    /\ call_tree.bound
    /\ LET r == print_call_tree(call_tree.tree, 0, print_call_tree_cache)
       IN /\ print_call_tree_cache' = r.cache
          /\ last' = [NoInvocation EXCEPT
                         !.op = "print_call_tree", !.fn_def = call_tree.fn_def,
                         !.exc = r.exc, !.lineno = r.lineno,
                         !.tree = call_tree.tree, !.out = r.out,
                         !.cleared = r.cleared]
    /\ UNCHANGED <<module, call_tree>>

Next == BuildFunctionDef \/ BuildCall \/ Render

Spec == Init /\ [][Next]_vars

\* ================================================================== claims
BuiltFunctionDef == last.op = "get_call_tree" /\ last.fn_def # NoneDef
BuiltCall == last.op = "get_call_tree" /\ last.call # NoCall
Rendered == last.op = "print_call_tree"
Body == last.fn_def.body

Positions(seq, x) == {i \in DOMAIN seq : seq[i] = x}
Entries(tree) == UNION {{<<tree[i].key, tree[i].callees[j]>> :
                              j \in DOMAIN tree[i].callees} : i \in DOMAIN tree}
NoDuplicates(list) == \A i, j \in DOMAIN list : list[i] = list[j] => i = j
IsLocal(name) == get_function_def_by_name(module, name) # NoneDef
SimpleAttribute(call) == call.kind = "Attribute" /\ call.value # NonName

\* C1: every top-level render invocation (print_call_tree at depth 0)
\* finishes, i.e. returns to its caller, having emitted finitely many lines.
C1_RenderFinishes ==
    Rendered => last.exc = "None" /\ Len(last.out) \in Nat

\* C3: no owner key of a returned mapping holds two equal callee references,
\* and a function whose body calls the same local function at two call sites
\* gets a mapping with exactly one entry for it under the unit's owner key.
C3_OneEntryPerLocalCallee ==
    BuiltFunctionDef =>
        /\ \A i \in DOMAIN last.tree : NoDuplicates(last.tree[i].callees)
        /\ \A f \in FnNames \ BUILTIN_NAMES :
              (IsLocal(f) /\ Cardinality(Positions(Body, NameCall(f))) >= 2
                          /\ last.visited >= 1 /\ Body[1] = NameCall(f))
              => /\ last.exc = "None"
                 /\ HasKey(last.tree, module.name)
                 /\ Cardinality(Positions(Get(last.tree, module.name), f)) = 1

\* C4: for a seed whose body holds two identical attribute calls x.f() on a
\* simple name x (f not built-in), the mapping has exactly one entry f under
\* x and the render pass emits exactly one line for f.
C4_OneLineForRepeatedAttributeCall ==
    \A x \in OwnerNames : \A f \in {"run"} :
        (Rendered /\ Cardinality(Positions(Body, AttributeCall(x, f))) >= 2)
        => /\ HasKey(last.tree, x)
           /\ Cardinality(Positions(Get(last.tree, x), f)) = 1
           /\ Cardinality(Positions(last.out, TreeLine(f))) = 1

\* C5: a callee name of the built-in name set is never an entry of a mapping
\* get_call_tree returned and never the name of an emitted tree line.
C5_BuiltinsFiltered ==
    /\ \A e \in Entries(last.tree) \cup Entries(call_tree.tree) : e[2] \notin BUILTIN_NAMES
    /\ \A k \in DOMAIN last.out :
          (last.out[k].kind = "tree" => last.out[k].name \notin BUILTIN_NAMES)

\* C5 witness: a mapping was returned for a body holding an attribute call to
\* a built-in name next to an attribute call that was entered.
C5_Witness ==
    /\ BuiltFunctionDef /\ last.exc = "None"
    /\ \E i \in DOMAIN Body : SimpleAttribute(Body[i]) /\ Body[i].name \in BUILTIN_NAMES
    /\ Entries(last.tree) # {}

C7_UnresolvedNameIsNotFatal ==
    BuiltFunctionDef =>
        \A i \in 1..last.visited :
            (Body[i].kind = "Name" /\ ~IsLocal(Body[i].name)
                                   /\ Body[i].name \notin BUILTIN_NAMES)
            => /\ InList(DiagNotAFunctionDef(Body[i].name), last.out)
               /\ ~(last.exc # "None" /\ last.visited = i)

\* C8: every top-level render invocation resets the visited-set before it
\* looks at any callee, whatever tree it is given, and nothing marked visited
\* earlier is left in the set.
C8_RenderResetsCache ==
    Rendered => last.cleared /\ print_call_tree_cache = {}

\* C9: a function definition with no calls, or only calls to built-in names,
\* builds to a mapping with no owner keys, and rendering that mapping emits
\* no line and raises no error.
C9_EmptyLeaf ==
    (last.fn_def # NoneDef /\ \A i \in DOMAIN Body : Body[i].name \in BUILTIN_NAMES)
    => /\ last.exc = "None"
       /\ last.tree = << >>
       /\ (Rendered => last.out = << >>)

\* C10: get_call_tree given a call expression whose callee name has no
\* function definition in the unit returns an empty tree and raises no error.
C10_ExternalCallIsEmptyTree ==
    (BuiltCall /\ last.call.kind = "Name" /\ ~IsLocal(last.call.name))
    => last.exc = "None" /\ last.tree = << >>

====
